---- MODULE Spec2Model ----
(***************************************************************************)
(* Model of glance's Swift storage backend (glance/store/swift.py) and of  *)
(* migration 017 (quote_encrypted_swift_credentials).                      *)
(*                                                                         *)
(* A Python string is a sequence of one-character strings, so that the     *)
(* parsers are computed character by character as the code computes them.  *)
(* The alphabet is lower-case and leaves out '?', '#', '[' and ']', which  *)
(* urlparse treats specially and which none of the modelled URIs carries.  *)
(***************************************************************************)
EXTENDS Integers, Sequences, FiniteSets, TLC

(* ------------------------------------------------------------------ *)
(* Bounds                                                             *)
(* ------------------------------------------------------------------ *)

\* number of rows of the images table
NumImages == 3
\* largest image id handed to SwiftBackend.add
MaxImageId == 11
\* largest content-length the store reports on head_object
MaxSize == 2
\* most colon-separated parts in the credential string of a generated URI
MaxCredParts == 4
\* most path segments (after the host) of a generated URI
MaxPathSegs == 3

(* ------------------------------------------------------------------ *)
(* Python str operations                                              *)
(* ------------------------------------------------------------------ *)

\* s[:n]
Take(s, n) == SubSeq(s, 1, n)

\* s[n:]
Drop(s, n) == SubSeq(s, n + 1, Len(s))

\* s.startswith(p)
StartsWith(s, p) == Len(p) <= Len(s) /\ SubSeq(s, 1, Len(p)) = p

RECURSIVE FindFrom(_, _, _)
\* the first occurrence of p in s at 0-based index i or later, -1 when none
FindFrom(s, p, i) ==
    IF i + Len(p) > Len(s) THEN -1
    ELSE IF SubSeq(s, i + 1, i + Len(p)) = p THEN i
    ELSE FindFrom(s, p, i + 1)

\* s.find(p): 0-based index of the first occurrence, -1 when there is none
Find(s, p) == FindFrom(s, p, 0)

\* p in s
Contains(s, p) == Find(s, p) # -1

RECURSIVE Count(_, _)
\* s.count(p): non-overlapping occurrences
Count(s, p) ==
    IF Find(s, p) = -1 THEN 0 ELSE 1 + Count(Drop(s, Find(s, p) + Len(p)), p)

RECURSIVE Split(_, _)
\* s.split(p): always at least one part
Split(s, p) ==
    IF Find(s, p) = -1 THEN <<s>>
    ELSE <<Take(s, Find(s, p))>> \o Split(Drop(s, Find(s, p) + Len(p)), p)

RECURSIVE Join(_, _)
\* sep.join(parts)
Join(parts, sep) ==
    IF parts = <<>> THEN <<>>
    ELSE IF Len(parts) = 1 THEN parts[1]
    ELSE parts[1] \o sep \o Join(Tail(parts), sep)

RECURSIVE LStrip(_, _)
\* s.lstrip(c) for a one-character set c
LStrip(s, c) == IF s # <<>> /\ s[1] = c THEN LStrip(Tail(s), c) ELSE s

RECURSIVE RStrip(_, _)
\* s.rstrip(c)
RStrip(s, c) ==
    IF s # <<>> /\ s[Len(s)] = c THEN RStrip(Take(s, Len(s) - 1), c) ELSE s

\* s.strip(c)
Strip(s, c) == RStrip(LStrip(s, c), c)

(* ------------------------------------------------------------------ *)
(* String constants of the code                                       *)
(* ------------------------------------------------------------------ *)

SchemeSep == <<":", "/", "/">>
Swift == <<"s", "w", "i", "f", "t">>
SwiftHttp == <<"s", "w", "i", "f", "t", "+", "h", "t", "t", "p">>
SwiftHttps == <<"s", "w", "i", "f", "t", "+", "h", "t", "t", "p", "s">>
Http == <<"h", "t", "t", "p">>
HttpPrefix == <<"h", "t", "t", "p", ":", "/", "/">>
HttpsPrefix == <<"h", "t", "t", "p", "s", ":", "/", "/">>
DEFAULT_SWIFT_CONTAINER == <<"g", "l", "a", "n", "c", "e">>

\* the schemes legacy_parse_uri asserts
SwiftSchemes == {Swift, SwiftHttp, SwiftHttps}

(* ------------------------------------------------------------------ *)
(* urlparse                                                           *)
(* ------------------------------------------------------------------ *)

\* urlparse.scheme_chars, as far as the alphabet goes
SchemeChars ==
    {"a", "b", "c", "d", "e", "f", "g", "h", "i", "j", "k", "l", "m", "n", "o",
     "p", "q", "r", "s", "t", "u", "v", "w", "x", "y", "z", "0", "1", "2", "3",
     "4", "5", "6", "7", "8", "9", "+", "-", "."}

\* urlparse.uses_netloc, as far as the modelled URIs go: the swift schemes
\* are not in it
UsesNetloc == {Http, <<"h", "t", "t", "p", "s">>, <<"f", "t", "p">>}

\* urlsplit, the netloc found: it ends at the first '/' (j) of what follows '//'
UrlNetlocPath(scheme, after, j) ==
    [scheme |-> scheme,
     netloc |-> IF j = -1 THEN after ELSE Take(after, j),
     path |-> IF j = -1 THEN <<>> ELSE Drop(after, j)]

\* urlsplit, the scheme cut off.  Before Python 2.6.1 (legacy) the netloc is
\* split off only for the schemes of uses_netloc, and a swift URI keeps
\* '//creds@host/...' in its path (lp659445, Python issue7904).
UrlSplitNetloc(scheme, rest, legacy) ==
    IF StartsWith(rest, <<"/", "/">>) /\ (~legacy \/ scheme \in UsesNetloc)
    THEN UrlNetlocPath(scheme, Drop(rest, 2), Find(Drop(rest, 2), <<"/">>))
    ELSE [scheme |-> scheme, netloc |-> <<>>, path |-> rest]

\* urlsplit, i = url.find(':'): what precedes it is the scheme when it is
\* made of scheme characters only
UrlSplitScheme(url, i, legacy) ==
    IF i > 0 /\ \A j \in 1..i : url[j] \in SchemeChars
    THEN UrlSplitNetloc(Take(url, i), Drop(url, i + 1), legacy)
    ELSE UrlSplitNetloc(<<>>, url, legacy)

\* urlparse.urlparse(url): [scheme, netloc, path]
Urlparse(url, legacy) == UrlSplitScheme(url, Find(url, <<":">>), legacy)

(* ------------------------------------------------------------------ *)
(* urllib quote / unquote                                             *)
(* ------------------------------------------------------------------ *)

\* characters urllib.quote never escapes (letters, digits, '_.-') plus its
\* default safe='/'
QuoteSafe == (SchemeChars \ {"+"}) \cup {"A", "B", "C", "D", "E", "F", "_", "/"}

\* the %XX escape of a character of the alphabet that is not safe
Escape(c) ==
    CASE c = ":" -> <<"%", "3", "A">>
      [] c = "@" -> <<"%", "4", "0">>
      [] c = "%" -> <<"%", "2", "5">>
      [] c = "+" -> <<"%", "2", "B">>
      [] OTHER -> <<"%", "?", "?">>

RECURSIVE Quote(_)
\* urllib.quote(s)
Quote(s) ==
    IF s = <<>> THEN <<>>
    ELSE (IF s[1] \in QuoteSafe THEN <<s[1]>> ELSE Escape(s[1])) \o Quote(Tail(s))

HexDigits ==
    {"0", "1", "2", "3", "4", "5", "6", "7", "8", "9",
     "a", "b", "c", "d", "e", "f", "A", "B", "C", "D", "E", "F"}

\* chr(int(xy, 16)) for the escapes of the alphabet; "?" is a character
\* outside the alphabet
Unhex(x, y) ==
    CASE x = "3" /\ y \in {"A", "a"} -> ":"
      [] x = "4" /\ y = "0" -> "@"
      [] x = "2" /\ y = "5" -> "%"
      [] x = "2" /\ y \in {"B", "b"} -> "+"
      [] x = "2" /\ y \in {"F", "f"} -> "/"
      [] OTHER -> "?"

RECURSIVE Unquote(_)
\* urllib.unquote(s): every '%' followed by two hex digits is decoded, any
\* other '%' is kept
Unquote(s) ==
    IF s = <<>> THEN <<>>
    ELSE IF s[1] = "%" /\ Len(s) >= 3 /\ s[2] \in HexDigits /\ s[3] \in HexDigits
         THEN <<Unhex(s[2], s[3])>> \o Unquote(Drop(s, 3))
         ELSE <<s[1]>> \o Unquote(Tail(s))

(* ------------------------------------------------------------------ *)
(* State                                                              *)
(* ------------------------------------------------------------------ *)

VARIABLES
    metadata_encryption_key, \* CONF.metadata_encryption_key; "" when not set
    old_urlparse,            \* TRUE when urlparse is the one before Python 2.6.1
    to_quoted,               \* the direction of the running migration
    table,                   \* the images table: id -> stored location
    images,                  \* the rows read by the migration, in order
    mpc,                     \* where the migration is
    idx,                     \* the row of images the loop is at (1-based)
    log,                     \* what the migration logged, in order
    updates,                 \* ids of the rows updated, in order
    converted,               \* the locations handed to fix_uri_credentials
    mexc,                    \* the exception the migration ended with
    table0                   \* the images table before the migration

VARIABLES
    sop,      \* the SwiftBackend operation called: "none", "add" or "delete"
    options,  \* add's options mapping
    image_id, \* add's id
    delete_uri, \* delete's location
    conn,     \* the Connection the operation made
    spc,      \* where the operation is
    calls,    \* the calls made on the connection, with their outcomes
    sres      \* what the operation returned or raised

mvars == <<metadata_encryption_key, old_urlparse, to_quoted, table, images,
           mpc, idx, log, updates, converted, mexc, table0>>

VARIABLES
    cin,    \* the URI under conversion, by its components
    cpc,    \* which conversions have been made
    first,  \* what legacy_parse_uri made of the URI
    second  \* what legacy_parse_uri made of the first result, back to unquoted

svars == <<sop, options, image_id, delete_uri, conn, spc, calls, sres>>

cvars == <<cin, cpc, first, second>>

vars == <<mvars, svars, cvars>>

(* ------------------------------------------------------------------ *)
(* glance.common.crypt, as the migration uses it                      *)
(* ------------------------------------------------------------------ *)

\* a stored location: NULL, a string that is no ciphertext ("raw"), or the
\* ciphertext of text under key ("enc")
Null == [kind |-> "null", key |-> "", text |-> <<>>]
RawValue(s) == [kind |-> "raw", key |-> "", text |-> s]

\* crypt.urlsafe_encrypt(key, plaintext, 64)
urlsafe_encrypt(key, plaintext) == [kind |-> "enc", key |-> key, text |-> plaintext]

\* crypt.urlsafe_decrypt(key, ciphertext) succeeds
CanDecrypt(key, c) == c.kind = "enc" /\ c.key = key

(* ------------------------------------------------------------------ *)
(* Migration 017: the URI conversion                                  *)
(* ------------------------------------------------------------------ *)

NoExc == "none"
\* the outcome of a call: the exception it raised, or the value it returned
Raise(e) == [exc |-> e, value |-> Null]
Return(v) == [exc |-> NoExc, value |-> v]

\* s[0:n] and s[n:] for n = s.find(...), which is -1 when nothing is found
SliceTo(s, n) == IF n >= 0 THEN Take(s, n) ELSE Take(s, IF Len(s) > 0 THEN Len(s) - 1 ELSE 0)
SliceFrom(s, n) == IF n >= 0 THEN Drop(s, n) ELSE Drop(s, IF Len(s) > 0 THEN Len(s) - 1 ELSE 0)

encrypt_location(uri) == urlsafe_encrypt(metadata_encryption_key, uri)

\* decrypt_location(uri), for a uri that decrypts
decrypt_location(uri) == uri.text

\* auth_or_store_url with a leading http:// or https:// cut off
StripTransport(url) ==
    IF StartsWith(url, HttpPrefix) THEN Drop(url, Len(HttpPrefix))
    ELSE IF StartsWith(url, HttpsPrefix) THEN Drop(url, Len(HttpsPrefix))
    ELSE url

\* the user and key legacy_parse_uri takes from the parts of the credential
\* string; an empty sequence stands for None and for ''
CredUser(cred_parts, to_quote) ==
    IF to_quote
    THEN IF Len(cred_parts) = 3
         THEN Join(SubSeq(cred_parts, 1, 2), <<":">>)
         ELSE cred_parts[1]
    ELSE Unquote(cred_parts[1])

CredKey(cred_parts, to_quote) ==
    IF to_quote THEN cred_parts[Len(cred_parts)] ELSE Unquote(cred_parts[2])

\* whether legacy_parse_uri rejects the parts of the credential string
BadCredParts(cred_parts, to_quote) ==
    IF to_quote THEN Len(cred_parts) = 1 ELSE Len(cred_parts) # 2

\* 'user:key@', or nothing when either is empty or None
CredString(user, key, to_quote) ==
    IF user # <<>> /\ key # <<>>
    THEN (IF to_quote THEN Quote(user) ELSE user) \o <<":">>
         \o (IF to_quote THEN Quote(key) ELSE key) \o <<"@">>
    ELSE <<>>

\* what legacy_parse_uri raised, or the plain URI it built
Failed(e) == [exc |-> e, text |-> <<>>]
Built(uri) == [exc |-> NoExc, text |-> uri]

\* lines 214-246: container and object are the last two parts of the path,
\* the host goes back in front of the others unless it starts with 'http'
ConvertPath(scheme, user, key, netloc, path_parts, to_quote) ==
    IF Len(path_parts) < 2 THEN Failed("BadStoreUri")
    ELSE IF StartsWith(netloc, Http) THEN Failed("UnboundLocalError")
    ELSE Built(scheme \o SchemeSep \o CredString(user, key, to_quote)
               \o Strip(StripTransport(
                      Join(<<netloc>> \o SubSeq(path_parts, 1, Len(path_parts) - 2),
                           <<"/">>)), "/")
               \o <<"/">> \o Strip(path_parts[Len(path_parts) - 1], "/")
               \o <<"/">> \o Strip(path_parts[Len(path_parts)], "/"))

\* lines 186-214: the credentials; creds is empty for None and for ''
ConvertCreds(scheme, creds, netloc, path, to_quote) ==
    IF creds = <<>>
    THEN ConvertPath(scheme, <<>>, <<>>, netloc, Split(path, <<"/">>), to_quote)
    ELSE IF BadCredParts(Split(creds, <<":">>), to_quote)
    THEN Failed("BadStoreUri")
    ELSE ConvertPath(scheme, CredUser(Split(creds, <<":">>), to_quote),
                     CredKey(Split(creds, <<":">>), to_quote),
                     netloc, Split(path, <<"/">>), to_quote)

\* lines 184-185: host and path of the layout before Python 2.6.1
ConvertLegacyHost(scheme, creds, path, to_quote) ==
    ConvertCreds(scheme, creds,
                 Strip(SliceTo(path, Find(path, <<"/">>)), "/"),
                 Strip(SliceFrom(path, Find(path, <<"/">>)), "/"), to_quote)

\* lines 171-183: the credentials are what precedes '@', in the netloc or,
\* when there is no netloc, in the path; 'creds, x = y.split("@")' raises
\* ValueError unless there are exactly two parts
ConvertLayout(scheme, netloc, path, to_quote) ==
    IF netloc # <<>>
    THEN IF ~Contains(netloc, <<"@">>)
         THEN ConvertCreds(scheme, <<>>, netloc, path, to_quote)
         ELSE IF Len(Split(netloc, <<"@">>)) # 2 THEN Failed("ValueError")
         ELSE ConvertCreds(scheme, Split(netloc, <<"@">>)[1],
                           Split(netloc, <<"@">>)[2], path, to_quote)
    ELSE IF ~Contains(path, <<"@">>)
         THEN ConvertLegacyHost(scheme, <<>>, path, to_quote)
         ELSE IF Len(Split(path, <<"@">>)) # 2 THEN Failed("ValueError")
         ELSE ConvertLegacyHost(scheme, Split(path, <<"@">>)[1],
                                Split(path, <<"@">>)[2], to_quote)

\* lines 166-170: the assert on the scheme
ConvertPieces(pieces, to_quote) ==
    IF pieces.scheme \notin SwiftSchemes THEN Failed("AssertionError")
    ELSE ConvertLayout(pieces.scheme, pieces.netloc, LStrip(pieces.path, "/"),
                       to_quote)

\* The plain URI legacy_parse_uri builds, or the exception it raises on the way.
LegacyConvert(uri, to_quote) ==
    IF Count(uri, SchemeSep) # 1 THEN Failed("BadStoreUri")
    ELSE ConvertPieces(Urlparse(uri, old_urlparse), to_quote)

legacy_parse_uri(uri, to_quote) ==
    IF LegacyConvert(uri, to_quote).exc # NoExc
    THEN Raise(LegacyConvert(uri, to_quote).exc)
    ELSE Return(encrypt_location(LegacyConvert(uri, to_quote).text))

\* not uri: None or ''
Falsy(uri) == uri.kind = "null" \/ (uri.kind = "raw" /\ uri.text = <<>>)

\* fix_uri_credentials without its 'except (TypeError, ValueError)': the
\* failure of decrypt_location goes up as it is
fix_uri_credentials_unwrapped(uri, to_quote) ==
    IF Falsy(uri) THEN Return(Null)
    ELSE IF ~CanDecrypt(metadata_encryption_key, uri) THEN Raise("ValueError")
    ELSE legacy_parse_uri(decrypt_location(uri), to_quote)

fix_uri_credentials(uri, to_quote) ==
    IF Falsy(uri) THEN Return(Null)
    ELSE IF ~CanDecrypt(metadata_encryption_key, uri) THEN Raise("Invalid")
    ELSE legacy_parse_uri(decrypt_location(uri), to_quote)

(* ------------------------------------------------------------------ *)
(* SwiftBackend (glance/store/swift.py)                               *)
(* ------------------------------------------------------------------ *)

\* an option of the mapping: set to a value, or absent
Unset == [set |-> FALSE, value |-> <<>>]
SetTo(v) == [set |-> TRUE, value |-> v]

\* options.get(name, default); None is the empty string here, as the code
\* only tests it with 'not'
OptionGet(option, default) == IF option.set THEN option.value ELSE default

NoConn == [open |-> FALSE, authurl |-> <<>>, user |-> <<>>, key |-> <<>>]
\* Connection(authurl=..., user=..., key=..., snet=False)
Connection(authurl, user, key) ==
    [open |-> TRUE, authurl |-> authurl, user |-> user, key |-> key]

\* what an operation returned (exc = NoExc) or raised; detail is what the
\* exception's message names
NoResult == [exc |-> "pending", detail |-> <<>>, location |-> <<>>, size |-> 0]
Raised(e, detail) == [exc |-> e, detail |-> detail, location |-> <<>>, size |-> 0]
Returned(location, size) ==
    [exc |-> NoExc, detail |-> <<>>, location |-> location, size |-> size]

\* a call on the connection: outcome "ok", or the http_status of the
\* ClientException; length is the content-length header, -1 without one
Call(op, container, obj, outcome, length) ==
    [op |-> op, container |-> container, obj |-> obj, outcome |-> outcome,
     length |-> length]

Digits == <<"0", "1", "2", "3", "4", "5", "6", "7", "8", "9">>

RECURSIVE str(_)
\* str(id) of a non-negative int
str(n) == IF n < 10 THEN <<Digits[n + 1]>> ELSE str(n \div 10) \o <<Digits[(n % 10) + 1]>>

\* lines 125-127
FullAuthAddress(auth_address) ==
    IF StartsWith(auth_address, Http) THEN auth_address ELSE HttpsPrefix \o auth_address

\* lines 159-160 (and 69, 173, 199): "swift://%s:%s@%s/%s/%s"
LocationString(user, key, auth_address, container, obj) ==
    Swift \o SchemeSep \o user \o <<":">> \o key \o <<"@">> \o auth_address
    \o <<"/">> \o container \o <<"/">> \o obj

\* add's container and object name
AddContainer == OptionGet(options.container, DEFAULT_SWIFT_CONTAINER)
AddObject == str(image_id)
AddLocation ==
    LocationString(options.user.value, options.key.value,
                   options.auth_address.value, AddContainer, AddObject)

\* what 'logger.error(msg)' raises in add's three checks: msg is a local
\* assigned only on the line after
MsgBeforeAssignment == "UnboundLocalError"

\* lines 119-139: the exception add's checks of the options end in, NoExc
\* when they pass
AddCheckOptions(opts) ==
    IF OptionGet(opts.auth_address, <<>>) = <<>> THEN MsgBeforeAssignment
    ELSE IF OptionGet(opts.user, <<>>) = <<>> THEN MsgBeforeAssignment
    ELSE IF OptionGet(opts.key, <<>>) = <<>> THEN MsgBeforeAssignment
    ELSE NoExc

TokensFailed ==
    [exc |-> "BackendException", user |-> <<>>, key |-> <<>>, authurl |-> <<>>,
     container |-> <<>>, obj |-> <<>>]

\* lines 225-236
ParsePathParts(user, key, path_parts) ==
    IF Len(path_parts) < 2 THEN TokensFailed
    ELSE [exc |-> NoExc, user |-> user, key |-> key,
          authurl |-> HttpsPrefix
                      \o Join(SubSeq(path_parts, 1, Len(path_parts) - 2), <<"/">>),
          container |-> path_parts[Len(path_parts) - 1],
          obj |-> path_parts[Len(path_parts)]]

\* line 224: user, key = creds.split(':')
ParseCreds(creds, path) ==
    IF Len(Split(creds, <<":">>)) # 2 THEN TokensFailed
    ELSE ParsePathParts(Split(creds, <<":">>)[1], Split(creds, <<":">>)[2],
                        Split(path, <<"/">>))

\* lines 216-222: creds from the netloc, or from the path when the netloc is
\* not 'creds@host'
ParseLayout(netloc, path) ==
    IF Len(Split(netloc, <<"@">>)) = 2
    THEN ParseCreds(Split(netloc, <<"@">>)[1],
                    Join(<<Split(netloc, <<"@">>)[2], path>>, <<"/">>))
    ELSE IF Len(Split(path, <<"@">>)) = 2
    THEN ParseCreds(Split(path, <<"@">>)[1], Split(path, <<"@">>)[2])
    ELSE TokensFailed

\* SwiftBackend._parse_swift_tokens(parsed_uri)
parse_swift_tokens(parsed_uri) ==
    ParseLayout(parsed_uri.netloc, LStrip(parsed_uri.path, "/"))

\* what add is called with
AuthAddresses == {<<"x">>, <<"x", "/", "v", "1">>, <<"h", "t", "t", "p", ":", "/", "/", "x">>, <<"h", "t", "t", "p", "s", ":", "/", "/", "x">>}
OptionSets ==
    [auth_address : {Unset} \cup {SetTo(a) : a \in AuthAddresses},
     user : {Unset, SetTo(<<"u">>)},
     key : {Unset, SetTo(<<"k">>)},
     container : {Unset, SetTo(<<"i", "m", "g", "s">>)},
     create_container_on_put : BOOLEAN]

\* what delete is called with
DeleteUris == {<<"s", "w", "i", "f", "t", ":", "/", "/", "u", ":", "k", "@", "h", "/", "c", "/", "o">>, <<"s", "w", "i", "f", "t", ":", "/", "/", "u", ":", "k", "@", "h", "/", "v", "1", "/", "c", "/", "o">>, <<"s", "w", "i", "f", "t", ":", "/", "/", "h", "/", "c", "/", "o">>}

\* the http_status of a ClientException
NOT_FOUND == "404"
CONFLICT == "409"
SERVER_ERROR == "500"

StoreInit ==
    /\ sop = "none"
    /\ options = [auth_address |-> Unset, user |-> Unset, key |-> Unset,
                  container |-> Unset, create_container_on_put |-> FALSE]
    /\ image_id = 0
    /\ delete_uri = <<>>
    /\ conn = NoConn
    /\ spc = "idle"
    /\ calls = <<>>
    /\ sres = NoResult

\* SwiftBackend.add up to the Connection (lines 106-142)
AddBegin ==
    /\ spc = "idle"
    /\ sop' = "add"
    /\ \E opts \in OptionSets, id \in 0..MaxImageId :
           /\ options' = opts
           /\ image_id' = id
           /\ IF AddCheckOptions(opts) # NoExc
              THEN /\ sres' = Raised(AddCheckOptions(opts), <<>>)
                   /\ spc' = "raised"
                   /\ conn' = conn
              ELSE /\ conn' = Connection(FullAuthAddress(opts.auth_address.value),
                                         opts.user.value, opts.key.value)
                   /\ spc' = "head_container"
                   /\ sres' = sres
    /\ UNCHANGED <<delete_uri, calls, mvars, cvars>>

\* create_container_if_missing: swift_conn.head_container (lines 248-268)
AddHeadContainer ==
    /\ spc = "head_container"
    /\ \E outcome \in {"ok", NOT_FOUND, SERVER_ERROR} :
           /\ calls' = Append(calls, Call("head_container", AddContainer, <<>>, outcome, -1))
           /\ IF outcome = NOT_FOUND
              THEN IF options.create_container_on_put
                   THEN spc' = "put_container" /\ sres' = sres
                   ELSE spc' = "raised"
                        /\ sres' = Raised("BackendException", AddContainer)
              ELSE spc' = "put_object" /\ sres' = sres
    /\ UNCHANGED <<sop, options, image_id, delete_uri, conn, mvars, cvars>>

\* create_container_if_missing: swift_conn.put_container (lines 256-261)
AddPutContainer ==
    /\ spc = "put_container"
    /\ \E outcome \in {"ok", SERVER_ERROR} :
           /\ calls' = Append(calls, Call("put_container", AddContainer, <<>>, outcome, -1))
           /\ IF outcome = "ok"
              THEN spc' = "put_object" /\ sres' = sres
              ELSE spc' = "raised" /\ sres' = Raised("BackendException", <<>>)
    /\ UNCHANGED <<sop, options, image_id, delete_uri, conn, mvars, cvars>>

\* what add's 'except ClientException' raises (lines 171-179)
AddClientException(status) ==
    IF status = CONFLICT THEN Raised("Duplicate", AddLocation)
    ELSE Raised("BackendException", <<>>)

\* swift_conn.put_object (line 152)
AddPutObject ==
    /\ spc = "put_object"
    /\ \E outcome \in {"ok", CONFLICT, SERVER_ERROR} :
           /\ calls' = Append(calls, Call("put_object", AddContainer, AddObject, outcome, -1))
           /\ IF outcome = "ok"
              THEN spc' = "head_object" /\ sres' = sres
              ELSE spc' = "raised" /\ sres' = AddClientException(outcome)
    /\ UNCHANGED <<sop, options, image_id, delete_uri, conn, mvars, cvars>>

\* swift_conn.head_object and the return (lines 165-170)
AddHeadObject ==
    /\ spc = "head_object"
    /\ \E outcome \in {"ok", NOT_FOUND}, length \in -1..MaxSize :
           /\ outcome # "ok" => length = -1
           /\ calls' = Append(calls, Call("head_object", AddContainer, AddObject, outcome, length))
           /\ IF outcome = "ok"
              THEN /\ spc' = "returned"
                   /\ sres' = Returned(AddLocation, IF length = -1 THEN 0 ELSE length)
              ELSE spc' = "raised" /\ sres' = AddClientException(outcome)
    /\ UNCHANGED <<sop, options, image_id, delete_uri, conn, mvars, cvars>>

\* SwiftBackend.delete up to the Connection (lines 186-193); the caller
\* hands in urlparse's result
DeleteBegin ==
    /\ spc = "idle"
    /\ sop' = "delete"
    /\ \E u \in DeleteUris :
           /\ delete_uri' = u
           /\ IF parse_swift_tokens(Urlparse(u, old_urlparse)).exc # NoExc
              THEN /\ spc' = "raised"
                   /\ sres' = Raised("BackendException", <<>>)
                   /\ conn' = conn
              ELSE /\ spc' = "delete_object"
                   /\ sres' = sres
                   /\ conn' = Connection(parse_swift_tokens(Urlparse(u, old_urlparse)).authurl,
                                         parse_swift_tokens(Urlparse(u, old_urlparse)).user,
                                         parse_swift_tokens(Urlparse(u, old_urlparse)).key)
    /\ UNCHANGED <<options, image_id, calls, mvars, cvars>>

\* the location delete's NotFound names (lines 199-200)
DeleteLocation(t) == LocationString(t.user, t.key, t.authurl, t.container, t.obj)

\* swift_conn.delete_object and what follows (lines 195-202)
DeleteObject ==
    /\ spc = "delete_object"
    /\ \E outcome \in {"ok", NOT_FOUND, SERVER_ERROR} :
           /\ calls' = Append(calls,
                  Call("delete_object",
                       parse_swift_tokens(Urlparse(delete_uri, old_urlparse)).container,
                       parse_swift_tokens(Urlparse(delete_uri, old_urlparse)).obj, outcome, -1))
           /\ IF outcome = NOT_FOUND
              THEN /\ spc' = "raised"
                   /\ sres' = Raised("NotFound",
                          DeleteLocation(parse_swift_tokens(Urlparse(delete_uri, old_urlparse))))
              ELSE /\ spc' = "returned"
                   /\ sres' = Returned(<<>>, 0)
    /\ UNCHANGED <<sop, options, image_id, delete_uri, conn, mvars, cvars>>

StoreNext ==
    \/ AddBegin
    \/ AddHeadContainer
    \/ AddPutContainer
    \/ AddPutObject
    \/ AddHeadObject
    \/ DeleteBegin
    \/ DeleteObject


(* ------------------------------------------------------------------ *)
(* legacy_parse_uri on generated URIs                                 *)
(* ------------------------------------------------------------------ *)

\* the parts a generated credential string is made of
CredParts == {<<>>, <<"u">>, <<"k", "%">>, <<"a", "%", "3", "A", "u">>}

\* the credential strings: no credentials, or up to MaxCredParts parts
CredLists == UNION {[1..n -> CredParts] : n \in 0..MaxCredParts}

Schemes == SwiftSchemes \cup {<<"f", "t", "p">>}

Hosts == {<<"h">>, <<"h", "t", "t", "p", "h">>, HttpPrefix \o <<"h">>}

RECURSIVE PathOf(_)
\* a path of n segments: '/o', '/c/o', '/v/c/o', '/v/v/c/o', ...
PathOf(n) ==
    IF n = 1 THEN <<"/", "o">>
    ELSE IF n = 2 THEN <<"/", "c">> \o PathOf(1)
    ELSE <<"/", "v">> \o PathOf(n - 1)

\* the URIs handed to legacy_parse_uri, by their components
UriInputs ==
    [scheme : Schemes, creds : CredLists, host : Hosts, segs : 1..MaxPathSegs]

\* 'scheme://[creds@]host/path'
UriText(c) ==
    c.scheme \o SchemeSep
    \o (IF c.creds = <<>> THEN <<>> ELSE Join(c.creds, <<":">>) \o <<"@">>)
    \o c.host \o PathOf(c.segs)

NotRun == [exc |-> "pending", value |-> Null]

CodecInit ==
    /\ cin \in UriInputs
    /\ cpc = "input"
    /\ first = NotRun
    /\ second = NotRun

\* no URI is under conversion
CodecIdle ==
    /\ cin = [scheme |-> Swift, creds |-> <<>>, host |-> <<"h">>, segs |-> 2]
    /\ cpc = "idle"
    /\ first = NotRun
    /\ second = NotRun

\* upgrade's conversion: legacy_parse_uri(uri, to_quote=True)
ConvertToQuoted ==
    /\ cpc = "input"
    /\ first' = legacy_parse_uri(UriText(cin), TRUE)
    /\ cpc' = "quoted"
    /\ UNCHANGED <<cin, second, mvars, svars>>

\* downgrade's conversion of what upgrade stored:
\* legacy_parse_uri(decrypt_location(...), to_quote=False)
ConvertBack ==
    /\ cpc = "quoted"
    /\ first.exc = NoExc
    /\ second' = legacy_parse_uri(decrypt_location(first.value), FALSE)
    /\ cpc' = "back"
    /\ UNCHANGED <<cin, first, mvars, svars>>

\* downgrade's conversion: legacy_parse_uri(uri, to_quote=False)
ConvertToUnquoted ==
    /\ cpc = "input"
    /\ first' = legacy_parse_uri(UriText(cin), FALSE)
    /\ cpc' = "unquoted"
    /\ UNCHANGED <<cin, second, mvars, svars>>

(* ------------------------------------------------------------------ *)
(* Migration 017: migrate_location_credentials                        *)
(* ------------------------------------------------------------------ *)

\* decrypted locations the rows of the table may hold
UriGood == <<"s", "w", "i", "f", "t", ":", "/", "/", "u", ":", "k", "@", "h", "/", "c", "/", "o">>
UriAccount == <<"s", "w", "i", "f", "t", "+", "h", "t", "t", "p", ":", "/", "/", "a", ":", "u", ":", "k", "@", "h", "/", "v", "1", "/", "c", "/", "o">>
UriBadScheme == <<"f", "t", "p", ":", "/", "/", "u", ":", "k", "@", "h", "/", "c", "/", "o">>
UriTwoSchemes == <<"s", "w", "i", "f", "t", ":", "/", "/", "u", ":", "k", "@", "h", "t", "t", "p", ":", "/", "/", "h", "/", "c", "/", "o">>

StoredUris == {UriGood, UriAccount, UriBadScheme, UriTwoSchemes}

\* what a row's location may be before the migration: NULL, a value that is
\* no ciphertext, a ciphertext under another key, a ciphertext under "k1"
StoredLocations ==
    {Null, RawValue(<<"x">>), urlsafe_encrypt("k2", UriGood)}
    \cup {urlsafe_encrypt("k1", u) : u \in StoredUris}

ImageIds == 1..NumImages

\* the check of the key left out
KeyAssumed(key) == TRUE

\* CONF.metadata_encryption_key is set (neither None nor '')
KeyConfigured(key) == key # ""

\* list(images_table.select().execute()): every row, in id order
SelectAll(t) == [i \in ImageIds |-> [id |-> i, location |-> t[i]]]

\* an update whose where clause also takes in the rows after id
UpdateFrom(t, id, location) ==
    [i \in DOMAIN t |-> IF i >= id THEN location ELSE t[i]]

\* images_table.update().where(images_table.c.id == id).values(location=...)
UpdateWhere(t, id, location) == [t EXCEPT ![id] = location]

LogEntry(level, id) == [level |-> level, id |-> id]

MigrateInit ==
    /\ metadata_encryption_key \in {"", "k1"}
    /\ old_urlparse \in BOOLEAN
    /\ to_quoted = TRUE
    /\ table \in [ImageIds -> StoredLocations]
    /\ table0 = table
    /\ images = <<>>
    /\ mpc = "idle"
    /\ idx = 0
    /\ log = <<>>
    /\ updates = <<>>
    /\ converted = <<>>
    /\ mexc = NoExc

\* migrate_location_credentials up to the loop: the no-op return, or the
\* read of the whole table
migrate_location_credentials(to_quote) ==
    /\ mpc = "idle"
    /\ to_quoted' = to_quote
    /\ IF ~KeyConfigured(metadata_encryption_key)
       THEN /\ log' = Append(log, LogEntry("info", 0))
            /\ mpc' = "returned"
            /\ UNCHANGED <<images, idx>>
       ELSE /\ images' = SelectAll(table)
            /\ mpc' = "loop"
            /\ idx' = 1
            /\ UNCHANGED log
    /\ UNCHANGED <<metadata_encryption_key, old_urlparse, table, updates,
                   converted, mexc, table0,
                   svars, cvars>>

upgrade == migrate_location_credentials(TRUE)

downgrade == migrate_location_credentials(FALSE)

\* the loop is at a row
AtImage == mpc = "loop" /\ idx <= Len(images)

\* one turn of the loop whose row converts: the row is updated
ImageUpdated ==
    /\ AtImage
    /\ LET image == images[idx]
           r == fix_uri_credentials(image.location, to_quoted)
       IN  /\ r.exc = NoExc
           /\ table' = UpdateWhere(table, image.id, r.value)
           /\ updates' = Append(updates, image.id)
           /\ converted' = Append(converted, image.location)
    /\ idx' = idx + 1
    /\ UNCHANGED <<metadata_encryption_key, old_urlparse, to_quoted, images,
                   mpc, log, mexc, table0,
                   svars, cvars>>

\* one turn of the loop whose row does not decrypt: except exception.Invalid
ImageSkipped ==
    /\ AtImage
    /\ LET image == images[idx]
           r == fix_uri_credentials(image.location, to_quoted)
       IN  /\ r.exc = "Invalid"
           /\ log' = Append(log, LogEntry("warn", image.id))
           /\ converted' = Append(converted, image.location)
    /\ idx' = idx + 1
    /\ UNCHANGED <<metadata_encryption_key, old_urlparse, to_quoted, table,
                   images, mpc, updates, mexc, table0,
                   svars, cvars>>

\* one turn of the loop that ends in except exception.BadStoreUri: the error
\* is logged and raised again
ImageRejected ==
    /\ AtImage
    /\ LET image == images[idx]
           r == fix_uri_credentials(image.location, to_quoted)
       IN  /\ r.exc = "BadStoreUri"
           /\ log' = Append(log, LogEntry("error", image.id))
           /\ converted' = Append(converted, image.location)
           /\ mexc' = r.exc
    /\ mpc' = "raised"
    /\ UNCHANGED <<metadata_encryption_key, old_urlparse, to_quoted, table,
                   images, idx, updates, table0,
                   svars, cvars>>

\* one turn of the loop that raises what neither except clause names
ImageFailed ==
    /\ AtImage
    /\ LET image == images[idx]
           r == fix_uri_credentials(image.location, to_quoted)
       IN  /\ r.exc \notin {NoExc, "Invalid", "BadStoreUri"}
           /\ converted' = Append(converted, image.location)
           /\ mexc' = r.exc
    /\ mpc' = "raised"
    /\ UNCHANGED <<metadata_encryption_key, old_urlparse, to_quoted, table,
                   images, idx, log, updates, table0,
                   svars, cvars>>

\* the loop is over: the migration returns
MigrateReturn ==
    /\ mpc = "loop"
    /\ idx > Len(images)
    /\ mpc' = "returned"
    /\ UNCHANGED <<metadata_encryption_key, old_urlparse, to_quoted, table,
                   images, idx, log, updates, converted, mexc, table0,
                   svars, cvars>>

MigrateNext ==
    \/ upgrade
    \/ downgrade
    \/ ImageUpdated
    \/ ImageSkipped
    \/ ImageRejected
    \/ ImageFailed
    \/ MigrateReturn

\* the migration, with the store backend idle
MigrateSpecInit == MigrateInit /\ StoreInit /\ CodecIdle

MigrateSpec == MigrateSpecInit /\ [][MigrateNext]_vars

\* the migration before it is called, under a key
MigrateIdle ==
    /\ metadata_encryption_key = "k1"
    /\ old_urlparse \in BOOLEAN
    /\ to_quoted = TRUE
    /\ table = [i \in ImageIds |-> Null]
    /\ table0 = table
    /\ images = <<>>
    /\ mpc = "idle"
    /\ idx = 0
    /\ log = <<>>
    /\ updates = <<>>
    /\ converted = <<>>
    /\ mexc = NoExc

\* the store backend, with the migration idle
StoreSpecInit == MigrateIdle /\ StoreInit /\ CodecIdle

StoreSpec == StoreSpecInit /\ [][StoreNext]_vars

CodecNext ==
    \/ ConvertToQuoted
    \/ ConvertBack
    \/ ConvertToUnquoted

CodecSpecInit == MigrateIdle /\ StoreInit /\ CodecInit

\* the conversion alone, with the migration and the store backend idle
CodecSpec == CodecSpecInit /\ [][CodecNext]_vars

(* ------------------------------------------------------------------ *)
(* Properties of the migration                                        *)
(* ------------------------------------------------------------------ *)

Range(seq) == {seq[i] : i \in 1..Len(seq)}

\* the row decrypts under the configured key
Decrypts(location) == CanDecrypt(metadata_encryption_key, location)

\* the row decrypts and the parser does not take its URI
ParserRejects(location) ==
    Decrypts(location) /\ LegacyConvert(location.text, to_quoted).exc # NoExc

\* the row converts: fix_uri_credentials returns
Converts(location) == fix_uri_credentials(location, to_quoted).exc = NoExc

\* C1: when a row decrypts and the parser rejects its URI, the run aborts at
\* that row: the rows before it that converted are updated, no row from it on
\* is updated or converted, and the last thing logged is an error naming the
\* row's id.
C1_AbortAtRejectedRow ==
    /\ mpc \in {"loop", "returned"} =>
           \A j \in 1..Len(images) : j < idx => ~ParserRejects(images[j].location)
    /\ (mpc = "raised" /\ ParserRejects(images[idx].location)) =>
           /\ \A j \in 1..(idx - 1) :
                  Converts(images[j].location) =>
                      /\ images[j].id \in Range(updates)
                      /\ table[images[j].id]
                             = fix_uri_credentials(images[j].location, to_quoted).value
           /\ \A j \in idx..Len(images) :
                  /\ images[j].id \notin Range(updates)
                  /\ table[images[j].id] = images[j].location
           /\ Len(converted) = idx
           /\ log # <<>>
           /\ log[Len(log)] = LogEntry("error", images[idx].id)

\* C2: a turn of the loop at a row that does not decrypt leaves the table as
\* it is, issues no update, logs a warning naming the row and goes on to the
\* next row: it never ends the run.
C2_DecryptFailureSkipsRow ==
    [][(AtImage /\ ~Falsy(images[idx].location) /\ ~Decrypts(images[idx].location))
         => /\ table' = table
            /\ updates' = updates
            /\ log' = Append(log, LogEntry("warn", images[idx].id))
            /\ mpc' = "loop"
            /\ idx' = idx + 1
            /\ images' = images]_vars

\* C2 witness: the run returned after skipping a row that does not decrypt
\* and updating a later one.
C2_Witness ==
    /\ mpc = "returned"
    /\ \E j, k \in 1..Len(images) :
           /\ j < k
           /\ ~Falsy(images[j].location)
           /\ ~Decrypts(images[j].location)
           /\ LogEntry("warn", images[j].id) \in Range(log)
           /\ table[images[j].id] = table0[images[j].id]
           /\ images[k].id \in Range(updates)
           /\ table[images[k].id] # table0[images[k].id]

\* C3: once the loop has begun, images is the whole table as it was before any
\* update; the rows are converted in snapshot order, each at most once, from
\* the snapshot's value; and the rows not yet reached still hold in the table
\* what the snapshot holds for them.
C3_SnapshotBeforeUpdates ==
    (mpc \in {"loop", "raised"} \/ updates # <<>> \/ converted # <<>>) =>
        /\ images = [i \in ImageIds |-> [id |-> i, location |-> table0[i]]]
        /\ Len(converted) <= Len(images)
        /\ \A j \in 1..Len(converted) : converted[j] = table0[images[j].id]
        /\ \A j, k \in 1..Len(updates) : j # k => updates[j] # updates[k]
        /\ Range(updates) \subseteq {images[j].id : j \in 1..Len(converted)}
        /\ \A j \in (Len(converted) + 1)..Len(images) :
               table[images[j].id] = images[j].location

\* C3 witness: two rows have been updated to new values and a row is still
\* to come.
C3_Witness ==
    /\ mpc = "loop"
    /\ Len(updates) >= 2
    /\ \A j \in 1..Len(updates) : table[updates[j]] # table0[updates[j]]
    /\ idx <= Len(images)

\* C4: without a key, nothing is read and nothing is written: the table is
\* what it was, whatever the direction.
C4_NoKeyIsNoop ==
    metadata_encryption_key = "" =>
        /\ images = <<>>
        /\ converted = <<>>
        /\ updates = <<>>
        /\ table = table0
        /\ mpc \in {"idle", "returned"}

\* C4 witness: a downgrade without a key has returned, over a table with a
\* row that would convert under a key.
C4_Witness ==
    /\ metadata_encryption_key = ""
    /\ mpc = "returned"
    /\ ~to_quoted
    /\ log = <<LogEntry("info", 0)>>
    /\ \E i \in ImageIds : table[i] = urlsafe_encrypt("k1", UriGood)

(* ------------------------------------------------------------------ *)
(* Properties of the store backend                                    *)
(* ------------------------------------------------------------------ *)

\* the option names of add's three messages (lines 121, 131, 137)
NameAuthAddress == <<"s", "w", "i", "f", "t", "_", "s", "t", "o", "r", "e", "_", "a", "u", "t", "h", "_", "a", "d", "d", "r", "e", "s", "s">>
NameUser == <<"s", "w", "i", "f", "t", "_", "s", "t", "o", "r", "e", "_", "u", "s", "e", "r">>
NameKey == <<"s", "w", "i", "f", "t", "_", "s", "t", "o", "r", "e", "_", "k", "e", "y">>

\* the first required option the mapping lacks
FirstMissing(opts) ==
    IF OptionGet(opts.auth_address, <<>>) = <<>> THEN NameAuthAddress
    ELSE IF OptionGet(opts.user, <<>>) = <<>> THEN NameUser
    ELSE NameKey

\* C5: add called without auth_address, user or key fails with a
\* BackendException naming the option, with no connection made and no call
\* issued.
C5_MissingOptionIsBackendException ==
    (sop = "add" /\ (~options.auth_address.set \/ ~options.user.set \/ ~options.key.set)) =>
        /\ spc = "raised"
        /\ ~conn.open
        /\ calls = <<>>
        /\ sres.exc = "BackendException"
        /\ sres.detail = FirstMissing(options)

\* C6: once delete_object has been issued, delete raises NotFound naming the
\* location when the store said not-found, raises when the store failed
\* otherwise, and returns only when delete_object succeeded.
C6_DeleteFailsWhenStoreFails ==
    (sop = "delete" /\ calls # <<>>) =>
        /\ calls[1].op = "delete_object"
        /\ calls[1].outcome = NOT_FOUND =>
               /\ spc = "raised"
               /\ sres.exc = "NotFound"
               /\ sres.detail = LocationString(conn.user, conn.key, conn.authurl,
                                               calls[1].container, calls[1].obj)
        /\ calls[1].outcome \notin {"ok", NOT_FOUND} => spc = "raised"
        /\ spc = "returned" => calls[1].outcome = "ok"

\* the container is known to exist after call j
ContainerEnsured(j) ==
    /\ calls[j].op \in {"head_container", "put_container"}
    /\ calls[j].outcome = "ok"

\* call j leaves the container unsure
ContainerNotEnsured(j) ==
    \/ /\ calls[j].op = "head_container"
       /\ calls[j].outcome = NOT_FOUND
       /\ ~options.create_container_on_put
    \/ /\ calls[j].op = "head_container"
       /\ calls[j].outcome \notin {"ok", NOT_FOUND}
    \/ /\ calls[j].op = "put_container"
       /\ calls[j].outcome # "ok"

C8_LocationParsesBack ==
    (sop = "add" /\ spc = "returned") =>
        /\ parse_swift_tokens(Urlparse(sres.location, old_urlparse))
               = [exc |-> NoExc, user |-> conn.user, key |-> conn.key,
                  authurl |-> conn.authurl,
                  container |-> calls[Len(calls) - 1].container,
                  obj |-> calls[Len(calls) - 1].obj]
        /\ calls[Len(calls) - 1].op = "put_object"
        /\ calls[Len(calls) - 1].obj = str(image_id)
        /\ calls[Len(calls)].op = "head_object"
        /\ calls[Len(calls)].length # -1 => sres.size = calls[Len(calls)].length

(* ------------------------------------------------------------------ *)
(* Properties of the conversion                                       *)
(* ------------------------------------------------------------------ *)

\* a well-formed URI in unquoted form: a swift scheme, one '://', credentials
\* user:key or account:subuser:key with no part empty, container and object
WellFormedUnquoted(c) ==
    /\ c.scheme \in SwiftSchemes
    /\ Count(UriText(c), SchemeSep) = 1
    /\ Len(c.creds) \in {2, 3}
    /\ \A i \in 1..Len(c.creds) : c.creds[i] # <<>>
    /\ c.segs >= 2

\* C9: a well-formed unquoted URI converts to quoted form, the result
\* converts back to unquoted form, and what comes back decrypts to the URI.
C9_QuoteThenUnquoteIsIdentity ==
    WellFormedUnquoted(cin) =>
        /\ cpc = "quoted" => first.exc = NoExc
        /\ cpc = "back" =>
               /\ second.exc = NoExc
               /\ decrypt_location(second.value) = UriText(cin)

\* a credential string legacy_parse_uri takes in the direction: none, or
\* two or more parts to quoted form, exactly two to unquoted form
AcceptableCreds(c, to_quote) ==
    \/ c.creds = <<>>
    \/ IF to_quote THEN Len(c.creds) >= 2 ELSE Len(c.creds) = 2

\* what follows 'user:key@' in the rest of a URI, or all of it without '@'
AfterCreds(rest) ==
    IF Contains(rest, <<"@">>) THEN Drop(rest, Find(rest, <<"@">>) + 1) ELSE rest

\* C10: a URI with one '://', a swift scheme, acceptable credentials and at
\* least container and object converts, in either direction and whatever the
\* host, to 'scheme://[user:key@]authority/container/object' with the scheme,
\* authority, container and object of the input.
C10_ConversionKeepsAllButCredentials ==
    (/\ cpc \in {"quoted", "unquoted"}
     /\ cin.scheme \in SwiftSchemes
     /\ Count(UriText(cin), SchemeSep) = 1
     /\ AcceptableCreds(cin, cpc = "quoted")
     /\ cin.segs >= 2) =>
        /\ first.exc = NoExc
        /\ StartsWith(decrypt_location(first.value), cin.scheme \o SchemeSep)
        /\ AfterCreds(Drop(decrypt_location(first.value), Len(cin.scheme \o SchemeSep)))
               = cin.host \o PathOf(cin.segs)

\* the credential string of a converted URI: what stands between '://' and
\* '@', or nothing when the URI carries no credentials
EmittedCreds(uri, scheme) ==
    IF Contains(Drop(uri, Len(scheme \o SchemeSep)), <<"@">>)
    THEN Take(Drop(uri, Len(scheme \o SchemeSep)),
              Find(Drop(uri, Len(scheme \o SchemeSep)), <<"@">>))
    ELSE <<>>

\* C11: when the conversion to quoted form returns for a URI whose
\* credentials have two or more parts, the result carries 'user:key@', and
\* the percent-decoded user and key joined by ':' are the credentials of the
\* input.
C11_QuotingKeepsCredentials ==
    (cpc = "quoted" /\ first.exc = NoExc /\ Len(cin.creds) >= 2) =>
        /\ Len(Split(EmittedCreds(decrypt_location(first.value), cin.scheme), <<":">>)) = 2
        /\ Unquote(Split(EmittedCreds(decrypt_location(first.value), cin.scheme), <<":">>)[1])
           \o <<":">>
           \o Unquote(Split(EmittedCreds(decrypt_location(first.value), cin.scheme), <<":">>)[2])
               = Join(cin.creds, <<":">>)

====
